---------------------------- MODULE Spec2Model ----------------------------
(***************************************************************************)
(* Session / role / cart consistency of the Favs Bling storefront.         *)
(*                                                                         *)
(* Two components keep one logical session: AuthManager (api.js, from line *)
(* 1311) mirrors the identity provider's state-change feed, FavsBlingStore *)
(* (api.js, lines 4-1155) owns the cart.  The page is single-threaded: an  *)
(* action below is one run-to-completion piece of a handler, i.e. the code *)
(* from the event (or from the resumption of an await) to the next await.  *)
(* Requests to the remote document store travel over one connection and    *)
(* are answered in the order they were issued (inflight is a FIFO queue).  *)
(***************************************************************************)
EXTENDS Integers, Sequences, FiniteSets, TLC

VARIABLES
    accounts,        \* the identities the provider can sign in
    products,        \* store.products: the catalog, by category
    traced,          \* history: the <<handler, outcome>> pairs lastOp records
    faults,          \* remote requests the network lets fail in this run
    watched,         \* history: the signals that out records
    backend,         \* the answers the config backend can give in this run
    resend,          \* the provider also announces a sign-in of the signed-in identity
    viewed,          \* the run follows the page's current section and its timers
    config,          \* "none" | "remote" | "fallback": what window.CONFIG holds
    isLoaded,        \* secureConfig.isLoaded
    domLoaded,       \* DOMContentLoaded has been dispatched
    authWaiting,     \* initializeFirebase is registered for configReady
    provUser,        \* the identity provider's signed-in identity
    feed,            \* identity events the provider has not delivered yet
    authExists,      \* window.authManager is set
    authUser,        \* authManager.currentUser
    authIsAdmin,     \* authManager.isAdmin
    storeExists,     \* window.store is set
    storeUser,       \* store.currentUser
    storeIsAdmin,    \* store.isAdmin
    cart,            \* store.cart
    remote,          \* remote document store: carts/<uid>
    localStore,      \* localStorage: favsCart_<uid>
    inflight,        \* requests to the remote store not answered yet
    failures,        \* remote requests that have failed so far
    lastSaved,       \* history: per uid, the cart of the last save issued
    payments,        \* payment flows opened and not finished: [ref, total, uid, stage]
    orders,          \* store.orders
    refs,            \* payment references handed out so far
    currentSection,  \* store.currentSection ("-" where the run does not follow it)
    adminTimer,      \* pending setTimeout(showSection('admin')) of handleUserLogin
    lastOp,          \* history: the handler piece that ran last
    out              \* history: the watched signals that piece emitted, in order

vars == << accounts, products, traced, faults, watched, backend, resend, viewed, config, isLoaded,
           domLoaded, authWaiting, provUser, feed, authExists, authUser, authIsAdmin, storeExists,
           storeUser, storeIsAdmin, cart, remote, localStore, inflight,
           failures, lastSaved, payments, orders, refs, currentSection,
           adminTimer, lastOp, out >>

---------------------------------------------------------------------------
(* Bounds of the model *)

MaxQty == 2          \* largest quantity of a cart line that addToCart/updateQuantity builds
MaxInflight == 2     \* remote requests in flight at once
MaxFeed == 1         \* identity events queued at once
MaxFailures == 1     \* remote requests that fail in one run, at most
MaxPayments == 2     \* payment flows opened in one run
MaxOpen == 1         \* payment flows open or in verification at once
MaxTimers == 1       \* delayed showSection('admin') pending at once

---------------------------------------------------------------------------
(* Identities and e-mail comparison *)

\* user.email.toLowerCase(): per character; letters outside the table do not
\* occur in the e-mails of the model.
LowerChar(c) ==
    CASE c = "A" -> "a"
      [] c = "D" -> "d"
      [] c = "M" -> "m"
      [] c = "B" -> "b"
      [] c = "O" -> "o"
      [] OTHER -> c

ToLower(s) == [i \in DOMAIN s |-> LowerChar(s[i])]

\* CONFIG.ADMIN_EMAIL (abbreviated to its first letters)
ADMIN_EMAIL == << "a", "d", "m" >>

NoUser == [uid |-> "none", email |-> << >>]

\* The accounts of the identity provider: one ordinary user and the
\* administrator, who signs in with a case variant of the admin e-mail.
Users == { [uid |-> "u1", email |-> << "b", "o", "B" >>],
           [uid |-> "u2", email |-> << "A", "d", "M" >>] }

Uids == { u.uid : u \in Users }

\* user.email.toLowerCase() === this.adminEmail.toLowerCase()
IsAdminEmail(email) == ToLower(email) = ToLower(ADMIN_EMAIL)

---------------------------------------------------------------------------
(* Catalog and cart lines *)

\* getDefaultProducts(): the first product of each category
DefaultProducts ==
    [ clothing |-> << [id |-> 1, price |-> 4500, category |-> "clothing"] >>,
      service  |-> << [id |-> 101, price |-> 2500, category |-> "service"] >> ]

\* A catalog the admin has cut down to its clothing (deleteItem), as
\* localStorage 'favsProducts' then holds it
ClothingProducts ==
    [ clothing |-> << [id |-> 1, price |-> 4500, category |-> "clothing"] >>,
      service  |-> << >> ]

Categories == { "clothing", "service" }

\* product ids a caller passes: the catalog's and one that is in no category
ProductIds == { 1, 101, 999 }

\* quantity changes a caller passes to updateQuantity
Changes == { -2, -1, 1 }

\* this.products[category].find(p => p.id === productId): << >> when absent
FindProduct(productId, category) ==
    SelectSeq(products[category], LAMBDA p : p.id = productId)

\* this.cart.find(item => item.id === productId): index of the first match, 0 if none
FindIndex(c, productId) ==
    IF \E i \in DOMAIN c : c[i].id = productId
    THEN CHOOSE i \in DOMAIN c :
            /\ c[i].id = productId
            /\ \A j \in DOMAIN c : c[j].id = productId => i <= j
    ELSE 0

\* { ...product, quantity: 1 }
NewLine(p) == [id |-> p.id, price |-> p.price, category |-> p.category, quantity |-> 1]

\* Does some line of cart c hold product productId?
HasLine(c, productId) == FindIndex(c, productId) # 0

\* quantity of productId's line in c, 0 when there is none
QuantityOf(c, productId) ==
    IF HasLine(c, productId) THEN c[FindIndex(c, productId)].quantity ELSE 0

\* addToCart without its look-up of an existing line: always a new line
CartAfterAddPush(c, p) == Append(c, NewLine(p))

\* addToCart, the cart mutation: existingItem.quantity += 1, or push a new line
CartAfterAdd(c, p) ==
    IF HasLine(c, p.id)
    THEN [c EXCEPT ![FindIndex(c, p.id)].quantity = @ + 1]
    ELSE Append(c, NewLine(p))

\* removeFromCart, the cart mutation: this.cart.filter(item => item.id !== productId)
CartAfterRemove(c, productId) ==
    SelectSeq(c, LAMBDA item : item.id # productId)

\* updateQuantity without its hand-over to removeFromCart
CartAfterUpdateNoRemove(c, productId, change) ==
    [c EXCEPT ![FindIndex(c, productId)].quantity = @ + change]

\* updateQuantity handing over to removeFromCart only below 0
CartAfterUpdateStrict(c, productId, change) ==
    LET i  == FindIndex(c, productId)
        c1 == [c EXCEPT ![i].quantity = @ + change]
    IN  IF c1[i].quantity < 0 THEN CartAfterRemove(c1, productId) ELSE c1

\* updateQuantity, the cart mutation, for a product that has a line:
\* item.quantity += change; at <= 0 the call goes on into removeFromCart
CartAfterUpdate(c, productId, change) ==
    LET i  == FindIndex(c, productId)
        c1 == [c EXCEPT ![i].quantity = @ + change]
    IN  IF c1[i].quantity <= 0 THEN CartAfterRemove(c1, productId) ELSE c1

---------------------------------------------------------------------------
(* Remote document store and local fallback store *)

Absent == [exists |-> FALSE, val |-> << >>]

\* cartRef.set(value): the store keeps no node for an empty array
NodeOf(c) == IF c = << >> THEN Absent ELSE [exists |-> TRUE, val |-> c]

\* loadUserCart that starts fresh whatever the snapshot holds
LoadedCartFresh(snapshot) == << >>

\* loadUserCart after the read: snapshot.exists() ? snapshot.val() : []
LoadedCart(snapshot) == IF snapshot.exists THEN snapshot.val ELSE << >>

\* JSON.stringify(this.cart): the array's lines in order, each as its
\* key/value pairs in the order the keys were set
JSONStringify(c) ==
    [i \in DOMAIN c |-> << << "id", c[i].id >>, << "price", c[i].price >>,
                           << "category", c[i].category >>,
                           << "quantity", c[i].quantity >> >>]

ReadReq(uid) == [kind |-> "read", uid |-> uid, payload |-> << >>, by |-> "-"]

\* database.ref('users/' + uid).set({name, email, createdAt}) of handleSignup
ProfileReq(uid) == [kind |-> "profile", uid |-> uid, payload |-> << >>, by |-> "-"]

WriteReq(uid, c, by) == [kind |-> "write", uid |-> uid, payload |-> c, by |-> by]

NoSave == [has |-> FALSE, val |-> << >>]

\* What lastOp holds after a handler piece: its name, the product and user
\* it was about and its outcome, when that outcome of it is traced
NoOp == [op |-> "-", pid |-> 0, uid |-> "none", res |-> "-"]

Op(name, productId, uid, res) ==
    IF << name, res >> \in traced
    THEN [op |-> name, pid |-> productId, uid |-> uid, res |-> res]
    ELSE NoOp

\* Signals a handler piece gives off: showNotification(message, type), an
\* update of a part of the page, a call from AuthManager into the store
Note(type, message) == [t |-> type, m |-> message]

UI(part) == [t |-> "ui", m |-> part]

Call(method) == [t |-> "call", m |-> method]

\* The value a check hands back to its caller: "true" or "false"
Ret(value) == [t |-> "return", m |-> value]

\* Does the sequence of signals o hold sig?
Has(o, sig) == \E i \in DOMAIN o : o[i] = sig

\* How many times does o hold sig?
Count(o, sig) == Cardinality({ i \in DOMAIN o : o[i] = sig })

\* The signals about session and cart: every notification, the updates of
\* the page's parts, the calls into the store
SessionSignals ==
    { Note(type, message) :
        type \in { "info", "success", "warning", "error" },
        message \in { "login", "logged-out", "welcome", "added", "removed",
                      "cleared", "already-empty", "forced-admin" } }
    \cup { UI(part) : part \in { "main", "auth", "admin", "cart", "section", "overlay" } }
    \cup { Call(method) : method \in { "store.handleUserLogin", "store.handleUserLogout" } }

\* What out holds after a handler piece that gave off sigs, in this order
Emit(sigs) == SelectSeq(sigs, LAMBDA sig : sig \in watched)

\* The mutator a saveCart was called from, kept with its request for the
\* code that runs after the await when signals are watched
By(name) == IF watched = {} THEN "-" ELSE name

---------------------------------------------------------------------------
(* Configuration *)

\* The answers of GET /config: a usable configuration, no connection, no
\* answer within 10 s, a status outside 2xx, a body that is not JSON, a body
\* without success and config
Answers == { "ok", "network", "timeout", "status", "malformed", "unsuccessful" }

\* fetchFromBackend that throws only when fetch itself rejects
FetchThrowsUnanswered(answer) == answer \in { "network", "timeout" }

\* fetchFromBackend: does it throw (reject) for this answer?
FetchThrows(answer) == answer # "ok"

---------------------------------------------------------------------------
(* Initial states: the page before its scripts' events have run *)

InitPage ==
    /\ config = "none"
    /\ isLoaded = FALSE
    /\ domLoaded = FALSE
    /\ authWaiting = FALSE
    /\ provUser \in accounts \cup { NoUser }
    /\ feed = << >>
    /\ authExists = FALSE
    /\ authUser = NoUser
    /\ authIsAdmin = FALSE
    /\ storeExists = FALSE
    /\ storeUser = NoUser
    /\ storeIsAdmin = FALSE
    /\ cart = << >>
    /\ remote = [u \in Uids |-> Absent]
    /\ localStore = [u \in Uids |-> Absent]
    /\ inflight = << >>
    /\ failures = 0
    /\ lastSaved = [u \in Uids |-> NoSave]
    /\ payments = << >>
    /\ orders = << >>
    /\ refs = 0
    /\ currentSection = "-"
    /\ adminTimer = 0
    /\ lastOp = NoOp
    /\ out = << >>

\* The scenario of the specifications about sessions and carts: nothing is
\* watched, the config backend answers, the provider announces changes only
InitQuiet ==
    /\ watched = {}
    /\ backend = { "ok" }
    /\ resend = FALSE
    /\ viewed = FALSE

Mutators == { "addToCart", "removeFromCart", "updateQuantity", "clearCart" }

\* Sessions: both accounts, a catalog of one product; lastOp records the
\* session changes and the answered loads
Init ==
    /\ accounts = Users
    /\ products = ClothingProducts
    /\ traced = { << "loadUserCart", "ok" >>, << "logout", "ok" >> }
    /\ faults = MaxFailures
    /\ InitQuiet
    /\ InitPage

\* Sessions of one account on a network that does not fail; lastOp records
\* the mutator calls refused for want of a user
InitCalls ==
    /\ accounts = { u \in Users : u.uid = "u1" }
    /\ products = ClothingProducts
    /\ traced = { << m, "denied" >> : m \in Mutators }
    /\ faults = 0
    /\ InitQuiet
    /\ InitPage

\* Cart contents: the default catalog, one account, a network that does not
\* fail; lastOp records the mutator calls that changed the cart
InitCart ==
    /\ accounts = { u \in Users : u.uid = "u1" }
    /\ products = DefaultProducts
    /\ traced = { << "addToCart", "incremented" >>, << "addToCart", "appended" >>,
                  << "updateQuantity", "removed" >>, << "updateQuantity", "updated" >> }
    /\ faults = 0
    /\ InitQuiet
    /\ InitPage

pageVars == << accounts, products, traced, faults, watched, backend, resend, viewed, config,
              isLoaded, domLoaded, authWaiting >>
provVars == << provUser, feed >>
authVars == << authExists, authUser, authIsAdmin >>
sessionVars == << storeUser, storeIsAdmin >>
persistVars == << remote, localStore, inflight, failures, lastSaved >>
payVars == << payments, orders, refs >>
viewVars == << currentSection, adminTimer >>

\* The value of store.currentSection the run keeps for section
View(section) == IF viewed THEN section ELSE "-"

---------------------------------------------------------------------------
(* FavsBlingStore: session handlers *)

\* handleUserLogin up to its first await: the session fields, then
\* loadUserCart up to cartRef.once('value')
StoreHandleUserLogin(user) ==
    /\ storeUser' = user
    /\ storeIsAdmin' = IsAdminEmail(user.email)
    /\ inflight' = Append(inflight, ReadReq(user.uid))

\* handleUserLogout that leaves the cart in memory
StoreHandleUserLogoutKeepsCart ==
    /\ storeUser' = NoUser
    /\ storeIsAdmin' = FALSE
    /\ cart' = cart

\* handleUserLogout: the session fields and the cart
StoreHandleUserLogout ==
    /\ storeUser' = NoUser
    /\ storeIsAdmin' = FALSE
    /\ cart' = << >>

\* saveCart up to cartRef.set(this.cart), for a cart c just computed by the
\* handler named by
SaveCart(c, by) ==
    IF storeUser = NoUser
    THEN UNCHANGED << inflight, lastSaved >>
    ELSE /\ Len(inflight) < MaxInflight
         /\ inflight' = Append(inflight, WriteReq(storeUser.uid, c, By(by)))
         /\ lastSaved' = [lastSaved EXCEPT ![storeUser.uid] = [has |-> TRUE, val |-> c]]

\* saveCart's catch block, run when the remote write is rejected: it reads
\* this.currentUser and this.cart as they are then; with no user the key
\* expression throws and the inner catch swallows it.
SaveCartFallback ==
    IF storeUser = NoUser
    THEN UNCHANGED localStore
    ELSE localStore' = [localStore EXCEPT
                          ![storeUser.uid] = [exists |-> TRUE, val |-> JSONStringify(cart)]]

---------------------------------------------------------------------------
(* AuthManager: session handlers *)

\* AuthManager.handleUserLogin(user)
AuthHandleUserLogin(user) ==
    /\ authUser' = user
    /\ authIsAdmin' = IsAdminEmail(user.email)
    /\ IF storeExists
       THEN /\ Len(inflight) < MaxInflight
            /\ StoreHandleUserLogin(user)
       ELSE UNCHANGED << storeUser, storeIsAdmin, inflight >>
    /\ \* hideAdminInterface of AuthManager: away from an active admin section
       currentSection' = IF storeExists /\ ~IsAdminEmail(user.email)
                            /\ currentSection = "admin"
                         THEN View("home") ELSE currentSection
    /\ UNCHANGED << cart, lastSaved >>

\* AuthManager.handleUserLogout() that does not notify the store
AuthHandleUserLogoutSilent ==
    /\ authUser' = NoUser
    /\ authIsAdmin' = FALSE
    /\ UNCHANGED << storeUser, storeIsAdmin, cart, inflight, lastSaved, currentSection >>

\* AuthManager.handleUserLogout()
AuthHandleUserLogout ==
    /\ authUser' = NoUser
    /\ authIsAdmin' = FALSE
    /\ IF storeExists
       THEN StoreHandleUserLogout
       ELSE UNCHANGED << storeUser, storeIsAdmin, cart >>
    /\ \* showSection('home') of the store's handleUserLogout
       currentSection' = IF storeExists THEN View("home") ELSE currentSection
    /\ UNCHANGED << inflight, lastSaved >>

\* What AuthManager.handleUserLogin gives off, in the order of its
\* statements: showMainWebsite, updateAuthUI, the call into the store, the
\* welcome notification, showAdminInterface or hideAdminInterface
LoginSignals ==
    << UI("main"), UI("auth") >>
    \o (IF storeExists THEN << Call("store.handleUserLogin") >> ELSE << >>)
    \o << Note("success", "welcome"), UI("admin") >>

\* What AuthManager.handleUserLogout gives off: updateAuthUI, the call into
\* the store (whose handleUserLogout runs hideAdminInterface, updateAuthUI,
\* updateCartDisplay, showSection), hideAdminInterface
LogoutSignals ==
    << UI("auth") >>
    \o (IF storeExists
        THEN << Call("store.handleUserLogout"), UI("admin"), UI("auth"),
                UI("cart"), UI("section") >>
        ELSE << >>)
    \o << UI("admin") >>

\* requireAuthForAction of the store with no user: the notification, and
\* the login overlay when there is an AuthManager to show it
PromptSignals ==
    << Note("info", "login") >>
    \o (IF authExists THEN << UI("overlay") >> ELSE << >>)

\* What a mutator gives off after its await of saveCart
AfterSaveSignals(by) ==
    CASE by = "addToCart"      -> << UI("cart"), Note("success", "added") >>
      [] by = "removeFromCart" -> << UI("cart"), Note("info", "removed") >>
      [] by = "updateQuantity" -> << UI("cart") >>
      [] by = "clearCart"      -> << UI("cart"), Note("success", "cleared") >>
      [] by = "payment"        -> << UI("cart"), UI("success-modal"),
                                     Note("success", "completed") >>
      [] OTHER                 -> << >>

\* What handleUserLogin gives off after its await of loadUserCart:
\* updateCartDisplay, updateAuthUI, the welcome notification, then
\* showAdminInterface or showSection('home')
AfterLoadSignals ==
    << UI("cart"), UI("auth"), Note("success", "welcome"),
       IF storeIsAdmin THEN UI("admin") ELSE UI("section") >>

\* new AuthManager(): fields, then init() subscribes to the provider's feed,
\* which replays the provider's present state once
CreateAuthManager ==
    /\ authExists' = TRUE
    /\ authUser' = NoUser
    /\ authIsAdmin' = FALSE
    /\ feed' = Append(feed, provUser)

---------------------------------------------------------------------------
(* Page life cycle *)

\* SecureConfig.init ends: fetchFromBackend got its answer and published
\* the backend's configuration, or threw and useSafeFallback published the
\* fixed one; setupGlobalConfig sets window.CONFIG and dispatches
\* configReady, which runs initializeFirebase when it is registered
ConfigPublished(answer) ==
    /\ config = "none"
    /\ config' = IF FetchThrows(answer) THEN "fallback" ELSE "remote"
    /\ isLoaded' = TRUE
    /\ out' = Emit(<< Call("configReady") >>)
    /\ IF authWaiting
       THEN CreateAuthManager
       ELSE UNCHANGED << authExists, authUser, authIsAdmin, feed >>
    /\ lastOp' = Op("configReady", 0, "none", answer)
    /\ UNCHANGED << accounts, products, traced, faults, watched, backend, resend, viewed,
                    domLoaded, authWaiting, provUser,
                    sessionVars, storeExists, cart, persistVars, payVars,
                    viewVars >>

\* DOMContentLoaded: first listener: store = new FavsBlingStore() (the
\* constructor reads CONFIG and throws when it is not published; init() logs
\* the store in when authManager already has a user); second listener:
\* initializeFirebaseWhenReady
DOMContentLoaded ==
    /\ ~domLoaded
    /\ domLoaded' = TRUE
    /\ IF config = "none"
       THEN /\ UNCHANGED << storeExists, sessionVars, inflight >>
            /\ authWaiting' = TRUE
            /\ UNCHANGED << authExists, authUser, authIsAdmin, feed >>
       ELSE /\ storeExists' = TRUE
            /\ IF authExists /\ authUser # NoUser
               THEN StoreHandleUserLogin(authUser)
               ELSE /\ storeUser' = NoUser
                    /\ storeIsAdmin' = FALSE
                    /\ UNCHANGED inflight
            /\ UNCHANGED authWaiting
            /\ CreateAuthManager
    /\ cart' = << >>
    /\ currentSection' = IF config = "none" THEN currentSection ELSE View("home")
    /\ lastOp' = Op("DOMContentLoaded", 0, "none", IF config = "none" THEN "noconfig" ELSE "ok")
    /\ out' = << >>
    /\ UNCHANGED << accounts, products, traced, faults, watched, backend, resend, viewed,
                    config, isLoaded, provUser, remote,
                    localStore, failures, lastSaved, payVars, adminTimer >>

---------------------------------------------------------------------------
(* Identity provider *)

\* A sign-in (handleLogin, handleSignup, handleGoogleLogin) succeeds at the provider
ProviderSignIn(user) ==
    /\ authExists
    /\ user # provUser \/ resend
    /\ Len(feed) < MaxFeed
    /\ provUser' = user
    /\ feed' = Append(feed, user)
    /\ lastOp' = Op("signIn", 0, user.uid, "ok")
    /\ out' = << >>
    /\ UNCHANGED << pageVars, payVars, viewVars, authVars, storeExists, sessionVars, cart, persistVars >>

\* handleLogout that clears the session itself, without waiting for the
\* provider's event
HandleLogoutEager ==
    /\ authExists
    /\ provUser # NoUser
    /\ Len(feed) < MaxFeed
    /\ provUser' = NoUser
    /\ feed' = Append(feed, NoUser)
    /\ AuthHandleUserLogout
    /\ lastOp' = Op("handleLogout", 0, provUser.uid, "ok")
    /\ out' = Emit(<< Note("info", "logged-out") >>)
    /\ UNCHANGED << pageVars, payVars, adminTimer, authExists, storeExists,
                    remote, localStore, failures >>

\* AuthManager.handleLogout: auth.signOut() ends the provider's session
HandleLogout ==
    /\ authExists
    /\ provUser # NoUser
    /\ Len(feed) < MaxFeed
    /\ provUser' = NoUser
    /\ feed' = Append(feed, NoUser)
    /\ lastOp' = Op("handleLogout", 0, provUser.uid, "ok")
    /\ out' = Emit(<< Note("info", "logged-out") >>)
    /\ UNCHANGED << pageVars, payVars, viewVars, authVars, storeExists, sessionVars, cart, persistVars >>

\* The callback given to auth.onAuthStateChanged runs with the next event
OnAuthStateChanged ==
    /\ authExists
    /\ feed # << >>
    /\ feed' = Tail(feed)
    /\ IF Head(feed) # NoUser
       THEN /\ AuthHandleUserLogin(Head(feed))
            /\ lastOp' = Op("login", 0, Head(feed).uid, "ok")
            /\ out' = Emit(LoginSignals)
       ELSE /\ AuthHandleUserLogout
            /\ lastOp' = Op("logout", 0, authUser.uid, "ok")
            /\ out' = Emit(LogoutSignals)
    /\ UNCHANGED << pageVars, payVars, adminTimer, provUser, authExists,
                    storeExists, remote, localStore, failures >>

---------------------------------------------------------------------------
(* AuthManager: the forms of the login overlay *)

\* The error codes the provider rejects with that getAuthErrorMessage knows
MappedCodes ==
    { "auth/invalid-email", "auth/user-disabled", "auth/user-not-found",
      "auth/wrong-password", "auth/email-already-in-use", "auth/weak-password",
      "auth/network-request-failed", "auth/too-many-requests",
      "auth/invalid-credential", "auth/account-exists-with-different-credential" }

\* The codes of the model: the known ones, one of the provider that the
\* table does not hold, and the one the database rejects a write with
ErrorCodes == MappedCodes \cup { "auth/internal-error", "PERMISSION_DENIED" }

GenericMessage == "Authentication failed. Please try again"

\* getAuthErrorMessage(error): errorMessages[error.code] || generic
GetAuthErrorMessage(code) ==
    CASE code = "auth/invalid-email" -> "Invalid email address"
      [] code = "auth/user-disabled" -> "This account has been disabled"
      [] code = "auth/user-not-found" -> "No account found with this email"
      [] code = "auth/wrong-password" -> "Incorrect password"
      [] code = "auth/email-already-in-use" -> "Email already in use"
      [] code = "auth/weak-password" -> "Password is too weak"
      [] code = "auth/network-request-failed" -> "Network error. Please check your connection"
      [] code = "auth/too-many-requests" -> "Too many attempts. Please try again later"
      [] code = "auth/invalid-credential" -> "Invalid login credentials"
      [] code = "auth/account-exists-with-different-credential" ->
            "An account already exists with the same email address"
      [] OTHER -> GenericMessage

\* The notifications of the forms
FormSignals ==
    { Note("error", GetAuthErrorMessage(code)) : code \in ErrorCodes }
    \cup { Note("error", "Passwords do not match!"),
           Note("error", "Password must be at least 6 characters!"),
           Note("error", "Please enter a valid email address"),
           Note("success", "Account created successfully!"),
           Note("success", "Password reset email sent! Check your inbox.") }

\* A form handler whose provider call rejects with code: the catch block
\* restores the button and shows getAuthErrorMessage(error)
FormFails(name, code) ==
    /\ authExists
    /\ out' = Emit(<< Note("error", GetAuthErrorMessage(code)) >>)
    /\ lastOp' = Op(name, 0, "none", code)
    /\ UNCHANGED << pageVars, payVars, viewVars, provVars, authVars, storeExists,
                    sessionVars, cart, persistVars >>

\* handleLogin: auth.signInWithEmailAndPassword rejects
HandleLoginFails(code) == FormFails("handleLogin", code)

\* handleSignup: auth.createUserWithEmailAndPassword rejects
HandleSignupFails(code) == FormFails("handleSignup", code)

\* handlePasswordReset: auth.sendPasswordResetEmail rejects
HandlePasswordResetFails(code) == FormFails("handlePasswordReset", code)

\* handleSignup refuses its input before it calls the provider
HandleSignupInvalid(message) ==
    /\ authExists
    /\ out' = Emit(<< Note("error", message) >>)
    /\ lastOp' = Op("handleSignup", 0, "none", "invalid")
    /\ UNCHANGED << pageVars, payVars, viewVars, provVars, authVars, storeExists,
                    sessionVars, cart, persistVars >>

\* handleSignup: auth.createUserWithEmailAndPassword resolves, which signs
\* the new user in at the provider; then up to the await of the profile write
HandleSignupCreates(user) ==
    /\ authExists
    /\ provUser = NoUser
    /\ Len(feed) < MaxFeed
    /\ Len(inflight) < MaxInflight
    /\ provUser' = user
    /\ feed' = Append(feed, user)
    /\ inflight' = Append(inflight, ProfileReq(user.uid))
    /\ lastOp' = Op("handleSignup", 0, user.uid, "created")
    /\ out' = << >>
    /\ UNCHANGED << pageVars, payVars, viewVars, authVars, storeExists, sessionVars,
                    cart, remote, localStore, failures, lastSaved >>

\* The profile write of handleSignup is applied (ok): the success
\* notification; or rejected: handleSignup's catch block
ProfileWriteResolves(ok) ==
    /\ inflight # << >>
    /\ Head(inflight).kind = "profile"
    /\ ok \/ failures < faults
    /\ failures' = IF ok THEN failures ELSE failures + 1
    /\ inflight' = Tail(inflight)
    /\ out' = IF ok
              THEN Emit(<< Note("success", "Account created successfully!") >>)
              ELSE Emit(<< Note("error", GetAuthErrorMessage("PERMISSION_DENIED")) >>)
    /\ lastOp' = Op("handleSignup", 0, Head(inflight).uid, IF ok THEN "ok" ELSE "fail")
    /\ UNCHANGED << pageVars, payVars, viewVars, provVars, authVars, storeExists,
                    sessionVars, cart, remote, localStore, lastSaved >>

---------------------------------------------------------------------------
(* FavsBlingStore: cart mutators, each up to the await of its saveCart *)

\* addToCart(productId, category) without its requireAuthForAction check
AddToCartUnchecked(productId, category) ==
    /\ storeExists
    /\ IF FindProduct(productId, category) = << >>
       THEN /\ lastOp' = Op("addToCart", productId, storeUser.uid, "notfound")
            /\ out' = << >>
            /\ UNCHANGED << cart, inflight, lastSaved >>
       ELSE /\ QuantityOf(cart, productId) < MaxQty
            /\ cart' = CartAfterAdd(cart, FindProduct(productId, category)[1])
            /\ SaveCart(CartAfterAdd(cart, FindProduct(productId, category)[1]), "addToCart")
            /\ lastOp' = Op("addToCart", productId, storeUser.uid,
                            IF HasLine(cart, productId) THEN "incremented" ELSE "appended")
            /\ out' = << >>
    /\ UNCHANGED << pageVars, payVars, viewVars, provVars, authVars, storeExists, sessionVars,
                    remote, localStore, failures >>

\* addToCart(productId, category)
AddToCart(productId, category) ==
    /\ storeExists
    /\ IF storeUser = NoUser
       THEN \* requireAuthForAction: login prompt, return
            /\ lastOp' = Op("addToCart", 0, "none", "denied")
            /\ out' = Emit(PromptSignals)
            /\ UNCHANGED << cart, inflight, lastSaved >>
       ELSE IF FindProduct(productId, category) = << >>
       THEN /\ lastOp' = Op("addToCart", productId, storeUser.uid, "notfound")
            /\ out' = << >>
            /\ UNCHANGED << cart, inflight, lastSaved >>
       ELSE /\ QuantityOf(cart, productId) < MaxQty
            /\ cart' = CartAfterAdd(cart, FindProduct(productId, category)[1])
            /\ SaveCart(CartAfterAdd(cart, FindProduct(productId, category)[1]), "addToCart")
            /\ lastOp' = Op("addToCart", productId, storeUser.uid,
                            IF HasLine(cart, productId) THEN "incremented" ELSE "appended")
            /\ out' = << >>
    /\ UNCHANGED << pageVars, payVars, viewVars, provVars, authVars, storeExists, sessionVars,
                    remote, localStore, failures >>

\* removeFromCart past its user check: the filter, then saveCart
RemoveFromCartEffect(productId) ==
    /\ cart' = CartAfterRemove(cart, productId)
    /\ SaveCart(CartAfterRemove(cart, productId), "removeFromCart")

\* removeFromCart(productId)
RemoveFromCart(productId) ==
    /\ storeExists
    /\ IF storeUser = NoUser
       THEN /\ lastOp' = Op("removeFromCart", 0, "none", "denied")
            /\ out' = Emit(<< Note("error", "login") >>)
            /\ UNCHANGED << cart, inflight, lastSaved >>
       ELSE /\ RemoveFromCartEffect(productId)
            /\ lastOp' = Op("removeFromCart", productId, storeUser.uid,
                            IF HasLine(cart, productId) THEN "removed" ELSE "noline")
            /\ out' = << >>
    /\ UNCHANGED << pageVars, payVars, viewVars, provVars, authVars, storeExists, sessionVars,
                    remote, localStore, failures >>

\* updateQuantity(productId, change)
UpdateQuantity(productId, change) ==
    /\ storeExists
    /\ IF storeUser = NoUser
       THEN /\ lastOp' = Op("updateQuantity", 0, "none", "denied")
            /\ out' = Emit(<< Note("error", "login") >>)
            /\ UNCHANGED << cart, inflight, lastSaved >>
       ELSE IF ~HasLine(cart, productId)
       THEN /\ lastOp' = Op("updateQuantity", productId, storeUser.uid, "noline")
            /\ out' = << >>
            /\ UNCHANGED << cart, inflight, lastSaved >>
       ELSE /\ QuantityOf(cart, productId) + change <= MaxQty
            /\ cart' = CartAfterUpdate(cart, productId, change)
            /\ SaveCart(CartAfterUpdate(cart, productId, change),
                        IF QuantityOf(cart, productId) + change <= 0
                        THEN "removeFromCart" ELSE "updateQuantity")
            /\ lastOp' = Op("updateQuantity", productId, storeUser.uid,
                            IF QuantityOf(cart, productId) + change <= 0
                            THEN "removed" ELSE "updated")
            /\ out' = << >>
    /\ UNCHANGED << pageVars, payVars, viewVars, provVars, authVars, storeExists, sessionVars,
                    remote, localStore, failures >>

\* clearCart without its look at the cart's length: it asks and saves also
\* when the cart is empty
ClearCartAlways(confirmed) ==
    /\ storeExists
    /\ IF storeUser = NoUser
       THEN /\ lastOp' = Op("clearCart", 0, "none", "denied")
            /\ out' = Emit(<< Note("error", "login") >>)
            /\ UNCHANGED << cart, inflight, lastSaved >>
       ELSE IF ~confirmed
       THEN /\ lastOp' = Op("clearCart", 0, storeUser.uid, "cancelled")
            /\ out' = << >>
            /\ UNCHANGED << cart, inflight, lastSaved >>
       ELSE /\ cart' = << >>
            /\ SaveCart(<< >>, "clearCart")
            /\ lastOp' = Op("clearCart", 0, storeUser.uid, "cleared")
            /\ out' = << >>
    /\ UNCHANGED << pageVars, payVars, viewVars, provVars, authVars, storeExists, sessionVars,
                    remote, localStore, failures >>

\* clearCart(); confirmed is the answer to confirm(...)
ClearCart(confirmed) ==
    /\ storeExists
    /\ IF storeUser = NoUser
       THEN /\ lastOp' = Op("clearCart", 0, "none", "denied")
            /\ out' = Emit(<< Note("error", "login") >>)
            /\ UNCHANGED << cart, inflight, lastSaved >>
       ELSE IF cart = << >>
       THEN /\ lastOp' = Op("clearCart", 0, storeUser.uid, "empty")
            /\ out' = Emit(<< Note("info", "already-empty") >>)
            /\ UNCHANGED << cart, inflight, lastSaved >>
       ELSE IF ~confirmed
       THEN /\ lastOp' = Op("clearCart", 0, storeUser.uid, "cancelled")
            /\ out' = << >>
            /\ UNCHANGED << cart, inflight, lastSaved >>
       ELSE /\ cart' = << >>
            /\ SaveCart(<< >>, "clearCart")
            /\ lastOp' = Op("clearCart", 0, storeUser.uid, "cleared")
            /\ out' = << >>
    /\ UNCHANGED << pageVars, payVars, viewVars, provVars, authVars, storeExists, sessionVars,
                    remote, localStore, failures >>

---------------------------------------------------------------------------
(* Answers of the remote store *)

\* The read of loadUserCart is answered (ok) or fails, and loadUserCart
\* sets the cart
ReadResolves(ok) ==
    /\ inflight # << >>
    /\ Head(inflight).kind = "read"
    /\ ok \/ failures < faults
    /\ failures' = IF ok THEN failures ELSE failures + 1
    /\ inflight' = Tail(inflight)
    /\ cart' = IF ok THEN LoadedCart(remote[Head(inflight).uid]) ELSE << >>
    /\ lastOp' = Op("loadUserCart", 0, Head(inflight).uid, IF ok THEN "ok" ELSE "fail")
    /\ out' = Emit(AfterLoadSignals)
    /\ \* handleUserLogin after its await: the admin gets the delayed
       \* showSection('admin'), everyone else showSection('home')
       IF storeIsAdmin
       THEN /\ viewed => adminTimer < MaxTimers
            /\ adminTimer' = IF viewed THEN adminTimer + 1 ELSE adminTimer
            /\ UNCHANGED currentSection
       ELSE /\ currentSection' = View("home")
            /\ UNCHANGED adminTimer
    /\ UNCHANGED << pageVars, payVars, provVars, authVars, storeExists, sessionVars,
                    remote, localStore, lastSaved >>

\* The write of saveCart is applied (ok), or rejected and saveCart's catch
\* block runs
WriteResolves(ok) ==
    /\ inflight # << >>
    /\ Head(inflight).kind = "write"
    /\ ok \/ failures < faults
    /\ failures' = IF ok THEN failures ELSE failures + 1
    /\ inflight' = Tail(inflight)
    /\ IF ok
       THEN /\ remote' = [remote EXCEPT ![Head(inflight).uid] = NodeOf(Head(inflight).payload)]
            /\ UNCHANGED << localStore, lastSaved >>
       ELSE /\ SaveCartFallback
            /\ lastSaved' = [lastSaved EXCEPT ![Head(inflight).uid] = NoSave]
            /\ UNCHANGED remote
    /\ lastOp' = Op("saveCart", 0, Head(inflight).uid, IF ok THEN "ok" ELSE "fail")
    /\ out' = Emit(AfterSaveSignals(Head(inflight).by))
    /\ UNCHANGED << pageVars, payVars, viewVars, provVars, authVars, storeExists, sessionVars, cart >>

---------------------------------------------------------------------------
(* Debug entry points *)

\* window.forceAdmin() -> store.forceAdminMode()
ForceAdminMode ==
    /\ storeExists
    /\ storeIsAdmin' = TRUE
    /\ lastOp' = Op("forceAdminMode", 0, storeUser.uid, "ok")
    /\ out' = Emit(<< UI("admin"), UI("section"), Note("warning", "forced-admin") >>)
    /\ currentSection' = View("admin")
    /\ UNCHANGED << pageVars, payVars, adminTimer, provVars, authVars, storeExists, storeUser,
                    cart, persistVars >>

---------------------------------------------------------------------------
(* Checkout and payment *)

\* this.cart.reduce((sum, item) => sum + (item.price * item.quantity), 0)
RECURSIVE Total(_)
Total(c) ==
    IF c = << >> THEN 0
    ELSE Head(c).price * Head(c).quantity + Total(Tail(c))

\* The answers of POST /verify-payment: success, a body with success false,
\* no usable answer (the request or response.json() rejects)
Verdicts == { "success", "declined", "error" }

\* The values of a field of the checkout form: empty, or some text
FieldValues == { "", "x" }

\* !(!name || !email || !phone)
Filled(name, email, phone) == name # "" /\ email # "" /\ phone # ""

\* handleCheckout without its look at the total
HandleCheckoutAnyTotal(filled) ==
    /\ storeExists
    /\ IF storeUser = NoUser
       THEN /\ out' = Emit(<< Note("error", "login") >>
                           \o (IF authExists THEN << UI("overlay") >> ELSE << >>))
            /\ lastOp' = Op("handleCheckout", 0, "none", "denied")
            /\ UNCHANGED << payments, refs >>
       ELSE IF ~filled
       THEN /\ out' = Emit(<< Note("error", "fields") >>)
            /\ lastOp' = Op("handleCheckout", 0, storeUser.uid, "fields")
            /\ UNCHANGED << payments, refs >>
       ELSE /\ refs < MaxPayments
            /\ Len(payments) < MaxOpen
            /\ refs' = refs + 1
            /\ payments' = Append(payments, [ref |-> refs + 1, total |-> Total(cart),
                                             uid |-> storeUser.uid, stage |-> "open"])
            /\ out' = Emit(<< Note("info", "processing"), UI("payment") >>)
            /\ lastOp' = Op("handleCheckout", 0, storeUser.uid, "opened")
    /\ UNCHANGED << pageVars, viewVars, provVars, authVars, storeExists, sessionVars,
                    cart, persistVars, orders >>

\* handleCheckout(); filled: the name, e-mail and phone fields are non-empty
HandleCheckout(filled) ==
    /\ storeExists
    /\ IF storeUser = NoUser
       THEN /\ out' = Emit(<< Note("error", "login") >>
                           \o (IF authExists THEN << UI("overlay") >> ELSE << >>))
            /\ lastOp' = Op("handleCheckout", 0, "none", "denied")
            /\ UNCHANGED << payments, refs >>
       ELSE IF ~filled
       THEN /\ out' = Emit(<< Note("error", "fields") >>)
            /\ lastOp' = Op("handleCheckout", 0, storeUser.uid, "fields")
            /\ UNCHANGED << payments, refs >>
       ELSE IF Total(cart) = 0
       THEN /\ out' = Emit(<< Note("error", "cart-empty") >>)
            /\ lastOp' = Op("handleCheckout", 0, storeUser.uid, "empty")
            /\ UNCHANGED << payments, refs >>
       ELSE \* PaystackPop.setup({... amount, ref, callback, onClose}).openIframe()
            /\ refs < MaxPayments
            /\ Len(payments) < MaxOpen
            /\ refs' = refs + 1
            /\ payments' = Append(payments, [ref |-> refs + 1, total |-> Total(cart),
                                             uid |-> storeUser.uid, stage |-> "open"])
            /\ out' = Emit(<< Note("info", "processing"), UI("payment") >>)
            /\ lastOp' = Op("handleCheckout", 0, storeUser.uid, "opened")
    /\ UNCHANGED << pageVars, viewVars, provVars, authVars, storeExists, sessionVars,
                    cart, persistVars, orders >>

\* The payment provider calls paymentCallback(response): handlePaymentSuccess
\* up to its await of fetch(.../verify-payment)
PaymentCallback ==
    /\ payments # << >>
    /\ Head(payments).stage = "open"
    /\ payments' = << [Head(payments) EXCEPT !.stage = "verifying"] >> \o Tail(payments)
    /\ out' = Emit(<< Note("info", "verifying") >>)
    /\ lastOp' = Op("paymentCallback", 0, Head(payments).uid, "ok")
    /\ UNCHANGED << pageVars, viewVars, provVars, authVars, storeExists, sessionVars,
                    cart, persistVars, orders, refs >>

\* The payment provider calls paymentOnClose(): the user closed the flow
PaymentClosed ==
    /\ payments # << >>
    /\ Head(payments).stage = "open"
    /\ payments' = Tail(payments)
    /\ out' = Emit(<< Note("warning", "payment-cancelled") >>)
    /\ lastOp' = Op("paymentOnClose", 0, Head(payments).uid, "ok")
    /\ UNCHANGED << pageVars, viewVars, provVars, authVars, storeExists, sessionVars,
                    cart, persistVars, orders, refs >>

\* handlePaymentSuccess that takes every answered verification as a success
VerifyResolvesTrusting(verdict) ==
    /\ payments # << >>
    /\ Head(payments).stage = "verifying"
    /\ payments' = Tail(payments)
    /\ IF verdict # "error"
       THEN /\ orders' = Append(orders, [id |-> Head(payments).ref, items |-> cart,
                                         total |-> Head(payments).total])
            /\ cart' = << >>
            /\ SaveCart(<< >>, "payment")
            /\ out' = Emit(<< Note("success", "verified") >>)
       ELSE /\ out' = Emit(<< Note("error", "verify-failed"), Note("info", "kept") >>)
            /\ UNCHANGED << orders, cart, inflight, lastSaved >>
    /\ lastOp' = Op("verify", 0, Head(payments).uid, verdict)
    /\ UNCHANGED << pageVars, viewVars, provVars, authVars, storeExists, sessionVars,
                    remote, localStore, failures, refs >>

\* handlePaymentSuccess after the verification is answered: on success the
\* order is pushed, the cart emptied and saveCart called; otherwise the
\* catch block reports and leaves the cart
VerifyResolves(verdict) ==
    /\ payments # << >>
    /\ Head(payments).stage = "verifying"
    /\ payments' = Tail(payments)
    /\ IF verdict = "success"
       THEN /\ orders' = Append(orders, [id |-> Head(payments).ref, items |-> cart,
                                         total |-> Head(payments).total])
            /\ cart' = << >>
            /\ SaveCart(<< >>, "payment")
            /\ out' = Emit(<< Note("success", "verified") >>
                           \o (IF storeUser = NoUser
                               THEN AfterSaveSignals("payment") ELSE << >>))
       ELSE /\ out' = Emit(<< Note("error", "verify-failed"), Note("info", "kept") >>)
            /\ UNCHANGED << orders, cart, inflight, lastSaved >>
    /\ lastOp' = Op("verify", 0, Head(payments).uid, verdict)
    /\ UNCHANGED << pageVars, viewVars, provVars, authVars, storeExists, sessionVars,
                    remote, localStore, failures, refs >>

---------------------------------------------------------------------------
(* Access checks *)

\* The signals of the checks: the two login prompts, the admin refusal, the
\* admin section being shown, and the values handed back
GuardSignals ==
    { Note("info", "login"), UI("overlay"), Note("error", "admin-required"),
      UI("admin-section"), Ret("true"), Ret("false") }

\* requireAuthForAction that does not repeat a prompt that is still showing
StoreRequireAuthForActionOnce ==
    /\ storeExists
    /\ out' = IF storeUser = NoUser
              THEN IF Has(out, Note("info", "login"))
                   THEN Emit(<< Ret("false") >>)
                   ELSE Emit(PromptSignals \o << Ret("false") >>)
              ELSE Emit(<< Ret("true") >>)
    /\ lastOp' = Op("requireAuthForAction", 0, storeUser.uid, "store")
    /\ UNCHANGED << pageVars, payVars, viewVars, provVars, authVars, storeExists, sessionVars,
                    cart, persistVars >>

\* FavsBlingStore.requireAuthForAction(action), called on its own (as the
\* cart link of the navigation does)
StoreRequireAuthForAction ==
    /\ storeExists
    /\ out' = IF storeUser = NoUser
              THEN Emit(PromptSignals \o << Ret("false") >>)
              ELSE Emit(<< Ret("true") >>)
    /\ lastOp' = Op("requireAuthForAction", 0, storeUser.uid, "store")
    /\ UNCHANGED << pageVars, payVars, viewVars, provVars, authVars, storeExists, sessionVars,
                    cart, persistVars >>

\* AuthManager.requireAuthForAction(action)
AuthRequireAuthForAction ==
    /\ authExists
    /\ out' = IF authUser = NoUser
              THEN Emit(<< Note("info", "login"), UI("overlay"), Ret("false") >>)
              ELSE Emit(<< Ret("true") >>)
    /\ lastOp' = Op("requireAuthForAction", 0, authUser.uid, "auth")
    /\ UNCHANGED << pageVars, payVars, viewVars, provVars, authVars, storeExists, sessionVars,
                    cart, persistVars >>

\* AuthManager.requireAdminAccess(action)
RequireAdminAccess ==
    /\ authExists
    /\ out' = IF authUser = NoUser
              THEN Emit(<< Note("info", "login"), UI("overlay"), Ret("false") >>)
              ELSE IF ~authIsAdmin
              THEN Emit(<< Note("error", "admin-required"), Ret("false") >>)
              ELSE Emit(<< Ret("true") >>)
    /\ lastOp' = Op("requireAdminAccess", 0, authUser.uid, "auth")
    /\ UNCHANGED << pageVars, payVars, viewVars, provVars, authVars, storeExists, sessionVars,
                    cart, persistVars >>

\* A click on the navigation's admin link: the store's own admin check,
\* then showSection('admin') and the admin lists
AdminNavClick ==
    /\ storeExists
    /\ out' = IF ~storeIsAdmin
              THEN Emit(<< Note("error", "admin-required") >>
                        \o (IF authExists THEN << UI("overlay") >> ELSE << >>))
              ELSE Emit(<< UI("admin-section") >>)
    /\ lastOp' = Op("adminNavClick", 0, storeUser.uid, "store")
    /\ currentSection' = IF storeIsAdmin THEN View("admin") ELSE currentSection
    /\ UNCHANGED << pageVars, payVars, adminTimer, provVars, authVars, storeExists, sessionVars,
                    cart, persistVars >>

---------------------------------------------------------------------------
(* Navigation *)

\* The sections a navigation link other than the admin link names
NavSections == { "home", "products", "cart" }

\* A click on a navigation link other than the admin link: the cart asks
\* requireAuthForAction first, then showSection(section)
NavClick(section) ==
    /\ storeExists
    /\ IF section = "cart" /\ storeUser = NoUser
       THEN /\ out' = Emit(PromptSignals)
            /\ UNCHANGED currentSection
       ELSE /\ out' = Emit(<< UI("section") >>)
            /\ currentSection' = View(section)
    /\ lastOp' = Op("navClick", 0, storeUser.uid, section)
    /\ UNCHANGED << pageVars, payVars, adminTimer, provVars, authVars, storeExists,
                    sessionVars, cart, persistVars >>

\* A click on the checkout button: requireAuthForAction, then
\* showSection('checkout')
CheckoutClick ==
    /\ storeExists
    /\ IF storeUser = NoUser
       THEN /\ out' = Emit(PromptSignals)
            /\ UNCHANGED currentSection
       ELSE /\ out' = Emit(<< UI("section") >>)
            /\ currentSection' = View("checkout")
    /\ lastOp' = Op("checkoutClick", 0, storeUser.uid, "store")
    /\ UNCHANGED << pageVars, payVars, adminTimer, provVars, authVars, storeExists,
                    sessionVars, cart, persistVars >>

\* The callback of handleUserLogin's setTimeout(..., 1000) runs:
\* this.showSection('admin')
AdminTimerFires ==
    /\ adminTimer > 0
    /\ adminTimer' = adminTimer - 1
    /\ currentSection' = View("admin")
    /\ out' = Emit(<< UI("section") >>)
    /\ lastOp' = Op("adminTimer", 0, storeUser.uid, "fired")
    /\ UNCHANGED << pageVars, payVars, provVars, authVars, storeExists,
                    sessionVars, cart, persistVars >>

---------------------------------------------------------------------------

Next ==
    \/ \E answer \in backend : ConfigPublished(answer)
    \/ DOMContentLoaded
    \/ \E user \in accounts : ProviderSignIn(user)
    \/ HandleLogout
    \/ OnAuthStateChanged
    \/ \E productId \in ProductIds, category \in Categories : AddToCart(productId, category)
    \/ \E productId \in ProductIds : RemoveFromCart(productId)
    \/ \E productId \in ProductIds, change \in Changes : UpdateQuantity(productId, change)
    \/ \E confirmed \in BOOLEAN : ClearCart(confirmed)
    \/ \E ok \in BOOLEAN : ReadResolves(ok)
    \/ \E ok \in BOOLEAN : WriteResolves(ok)
    \/ ForceAdminMode

Spec == Init /\ [][Next]_vars

SpecCalls == InitCalls /\ [][Next]_vars

SpecCart == InitCart /\ [][Next]_vars

\* The page with its access checks called: both accounts, a network that
\* does not fail; out records the signals of the checks
InitGuards ==
    /\ accounts = Users
    /\ products = ClothingProducts
    /\ traced = {}
    /\ faults = 0
    /\ watched = GuardSignals
    /\ backend = { "ok" }
    /\ resend = FALSE
    /\ viewed = FALSE
    /\ InitPage

NextGuards ==
    \/ Next
    \/ StoreRequireAuthForAction
    \/ AuthRequireAuthForAction
    \/ RequireAdminAccess
    \/ AdminNavClick

SpecGuards == InitGuards /\ [][NextGuards]_vars

\* Sessions of one account on a network that can fail; out records the
\* signals about session and cart
InitSignals ==
    /\ accounts = { u \in Users : u.uid = "u1" }
    /\ products = ClothingProducts
    /\ traced = {}
    /\ faults = MaxFailures
    /\ watched = SessionSignals
    /\ backend = { "ok" }
    /\ resend = FALSE
    /\ viewed = FALSE
    /\ InitPage

SpecSignals == InitSignals /\ [][Next]_vars

\* Sessions of one account with a provider that also announces a sign-in of
\* the identity that is signed in already, on a network that can fail
InitResend ==
    /\ accounts = { u \in Users : u.uid = "u1" }
    /\ products = ClothingProducts
    /\ traced = {}
    /\ faults = MaxFailures
    /\ watched = {}
    /\ backend = { "ok" }
    /\ resend = TRUE
    /\ viewed = FALSE
    /\ InitPage

SpecResend == InitResend /\ [][Next]_vars

\* The page with a config backend that can give every answer: one account,
\* a network that does not fail otherwise; lastOp records the answer and out
\* the dispatch of configReady
InitConfig ==
    /\ accounts = { u \in Users : u.uid = "u1" }
    /\ products = ClothingProducts
    /\ traced = { << "configReady", answer >> : answer \in Answers }
    /\ faults = 0
    /\ watched = { Call("configReady") }
    /\ backend = Answers
    /\ resend = FALSE
    /\ viewed = FALSE
    /\ InitPage

SpecConfig == InitConfig /\ [][Next]_vars

\* The page with its checkout: one account, a network that does not fail;
\* lastOp records the answered verifications
InitPay ==
    /\ accounts = { u \in Users : u.uid = "u1" }
    /\ products = ClothingProducts
    /\ traced = { << "verify", v >> : v \in Verdicts }
    /\ faults = 0
    /\ InitQuiet
    /\ InitPage

NextPay ==
    \/ Next
    \/ \E name \in FieldValues, email \in FieldValues, phone \in FieldValues :
          HandleCheckout(Filled(name, email, phone))
    \/ PaymentCallback
    \/ PaymentClosed
    \/ \E verdict \in Verdicts : VerifyResolves(verdict)

SpecPay == InitPay /\ [][NextPay]_vars

\* The page with its navigation, for the administrator's account on a
\* network that does not fail; the run follows the current section
InitView ==
    /\ accounts = { u \in Users : IsAdminEmail(u.email) }
    /\ products = ClothingProducts
    /\ traced = {}
    /\ faults = 0
    /\ watched = {}
    /\ backend = { "ok" }
    /\ resend = FALSE
    /\ viewed = TRUE
    /\ InitPage

NextView ==
    \/ Next
    \/ AdminNavClick
    \/ \E section \in NavSections : NavClick(section)
    \/ CheckoutClick
    \/ AdminTimerFires

SpecView == InitView /\ [][NextView]_vars

\* The page with the forms of its login overlay: one account, a network
\* that can fail; out records the notifications of the forms and lastOp the
\* profile writes that failed
InitForms ==
    /\ accounts = { u \in Users : u.uid = "u1" }
    /\ products = ClothingProducts
    /\ traced = { << "handleSignup", "fail" >> }
    /\ faults = MaxFailures
    /\ watched = FormSignals
    /\ backend = { "ok" }
    /\ resend = FALSE
    /\ viewed = FALSE
    /\ InitPage

NextForms ==
    \/ Next
    \/ \E code \in ErrorCodes : HandleLoginFails(code)
    \/ \E code \in ErrorCodes : HandleSignupFails(code)
    \/ \E code \in ErrorCodes : HandlePasswordResetFails(code)
    \/ \E message \in { "Passwords do not match!",
                         "Password must be at least 6 characters!" } :
          HandleSignupInvalid(message)
    \/ \E user \in accounts : HandleSignupCreates(user)
    \/ \E ok \in BOOLEAN : ProfileWriteResolves(ok)

SpecForms == InitForms /\ [][NextForms]_vars

---------------------------------------------------------------------------
(* Steps named by the properties below *)

\* Some cart mutator is called
MutatorCall ==
    \/ \E productId \in ProductIds, category \in Categories : AddToCart(productId, category)
    \/ \E productId \in ProductIds : RemoveFromCart(productId)
    \/ \E productId \in ProductIds, change \in Changes : UpdateQuantity(productId, change)
    \/ \E confirmed \in BOOLEAN : ClearCart(confirmed)

\* The store is told of a logout
LogoutNotified ==
    /\ storeExists
    /\ feed # << >>
    /\ Head(feed) = NoUser
    /\ OnAuthStateChanged

\* The remote write at the head of the queue is rejected
WriteRejected ==
    /\ inflight # << >>
    /\ Head(inflight).kind = "write"
    /\ WriteResolves(FALSE)

\* The read at the head of the queue is answered, for the current user
CurrentLoadAnswered ==
    /\ inflight # << >>
    /\ Head(inflight).kind = "read"
    /\ Head(inflight).uid = storeUser.uid
    /\ ReadResolves(TRUE)

\* Is a write under uid's key in the requests q?
WritePending(q, uid) ==
    \E i \in DOMAIN q : q[i].kind = "write" /\ q[i].uid = uid

---------------------------------------------------------------------------
(* Properties *)

\* C1: with no user signed in, a call of addToCart, removeFromCart,
\* updateQuantity or clearCart leaves the in-memory cart as it is and starts
\* no write to the remote store and none to the local fallback store.
C1_SignedOutMutatorsChangeNothing ==
    [][ (storeUser = NoUser /\ MutatorCall)
        => /\ cart' = cart
           /\ inflight' = inflight
           /\ remote' = remote
           /\ localStore' = localStore ]_vars

\* A mutator has just been refused for want of a user, with a cart on record
C1_Witness ==
    /\ storeExists
    /\ storeUser = NoUser
    /\ lastOp.res = "denied"
    /\ lastOp.op = "removeFromCart"
    /\ \E u \in Uids : remote[u].exists

\* C2: while no user is signed in the in-memory cart is empty, also after the
\* load started by an earlier login is answered late.
C2_StaleLoadDiscarded ==
    (storeExists /\ storeUser = NoUser) => cart = << >>

\* C3: the cart has at most one line per product id and every line's
\* quantity is at least 1.
C3_CartWellFormed ==
    /\ \A i, j \in DOMAIN cart : cart[i].id = cart[j].id => i = j
    /\ \A i \in DOMAIN cart : cart[i].quantity >= 1

\* updateQuantity has just taken a line out of a cart that keeps another line
C3_Witness ==
    /\ storeUser # NoUser
    /\ lastOp.op = "updateQuantity"
    /\ lastOp.res = "removed"
    /\ cart # << >>

\* C4: signed in, addToCart of a catalog product that has a line adds 1 to
\* that line's quantity and leaves the number of lines and every other line
\* as they are; for a catalog product without a line it appends one line of
\* quantity 1 at the end.
C4_AddToCartIncrementsOrAppends ==
    [][ \A productId \in ProductIds, category \in Categories :
          ( /\ storeUser # NoUser
            /\ FindProduct(productId, category) # << >>
            /\ AddToCart(productId, category) )
          => IF \E i \in DOMAIN cart : cart[i].id = productId
             THEN /\ Len(cart') = Len(cart)
                  /\ \A i \in DOMAIN cart :
                       /\ cart'[i].id = cart[i].id
                       /\ cart'[i].price = cart[i].price
                       /\ cart'[i].category = cart[i].category
                       /\ cart'[i].quantity = IF cart[i].id = productId
                                              THEN cart[i].quantity + 1
                                              ELSE cart[i].quantity
             ELSE /\ Len(cart') = Len(cart) + 1
                  /\ SubSeq(cart', 1, Len(cart)) = cart
                  /\ cart'[Len(cart')].id = productId
                  /\ cart'[Len(cart')].quantity = 1 ]_vars

\* addToCart has just raised a line to quantity 2 next to another line
C4_Witness ==
    /\ storeUser # NoUser
    /\ lastOp.op = "addToCart"
    /\ lastOp.res = "incremented"
    /\ Len(cart) = 2
    /\ \E i \in DOMAIN cart : cart[i].id = lastOp.pid /\ cart[i].quantity = 2

\* C5: signed in, for a product that has a line, updateQuantity whose
\* change brings the quantity to 0 or below leaves the same in-memory cart
\* and starts the same save as removeFromCart of that product; otherwise it
\* sets the line's quantity to the sum and saves that cart.
C5_UpdateQuantityRemovesOrSets ==
    [][ \A productId \in ProductIds, change \in Changes :
          ( /\ storeUser # NoUser
            /\ \E i \in DOMAIN cart : cart[i].id = productId
            /\ UpdateQuantity(productId, change) )
          => IF QuantityOf(cart, productId) + change <= 0
             THEN RemoveFromCartEffect(productId)
             ELSE /\ Len(cart') = Len(cart)
                  /\ \A i \in DOMAIN cart :
                       cart'[i] = IF cart[i].id = productId
                                  THEN [cart[i] EXCEPT !.quantity = @ + change]
                                  ELSE cart[i]
                  /\ inflight' = Append(inflight,
                        WriteReq(storeUser.uid, cart', By("updateQuantity"))) ]_vars

\* updateQuantity has just removed a line, and the cart being saved is the
\* cart without it
C5_Witness ==
    /\ storeUser # NoUser
    /\ lastOp.op = "updateQuantity"
    /\ lastOp.res = "removed"
    /\ \A i \in DOMAIN cart : cart[i].id # lastOp.pid
    /\ inflight # << >>
    /\ inflight[Len(inflight)] = WriteReq(storeUser.uid, cart, By("removeFromCart"))

\* C6: when the load of the current user is answered and every save made
\* under that user's key has been applied, the in-memory cart becomes the
\* cart of the last of those saves.
C6_RoundTrip ==
    [][ ( /\ CurrentLoadAnswered
          /\ lastSaved[storeUser.uid].has
          /\ ~WritePending(inflight, storeUser.uid) )
        => cart' = lastSaved[storeUser.uid].val ]_vars

\* The load of a later login has just brought back the non-empty cart saved
\* in an earlier session
C6_Witness ==
    /\ storeUser # NoUser
    /\ lastOp.op = "loadUserCart"
    /\ lastOp.uid = storeUser.uid
    /\ lastSaved[storeUser.uid].has
    /\ ~WritePending(inflight, storeUser.uid)
    /\ cart # << >>
    /\ cart = lastSaved[storeUser.uid].val

\* C7: a logout notification empties the in-memory cart in the same step
\* and starts no write: the remote records and the local fallback store are
\* as before.
C7_LogoutClearsWithoutWrite ==
    [][ LogoutNotified
        => /\ cart' = << >>
           /\ inflight' = inflight
           /\ remote' = remote
           /\ localStore' = localStore ]_vars

\* The user whose cart is on record has just been logged out
C7_Witness ==
    /\ storeExists
    /\ lastOp.op = "logout"
    /\ lastOp.uid \in Uids
    /\ remote[lastOp.uid].exists
    /\ storeUser = NoUser
    /\ cart = << >>

\* C8: when the remote write of a save is rejected, the local fallback
\* store afterwards holds, under the key of the user the save was started
\* for, the serialized cart the save was writing.
C8_FallbackHoldsSavedCart ==
    [][ WriteRejected
        => localStore'[Head(inflight).uid] =
              [exists |-> TRUE, val |-> JSONStringify(Head(inflight).payload)] ]_vars

\* C9: isAdmin, of the store and of AuthManager, is true exactly when a user
\* is signed in whose e-mail equals the admin e-mail ignoring case.
C9_IsAdminDerived ==
    /\ storeExists =>
         (storeIsAdmin <=> (storeUser # NoUser /\ IsAdminEmail(storeUser.email)))
    /\ authExists =>
         (authIsAdmin <=> (authUser # NoUser /\ IsAdminEmail(authUser.email)))

\* C10: when both components exist, store.currentUser and
\* authManager.currentUser are the same.
C10_SameUser ==
    (storeExists /\ authExists) => storeUser = authUser

\* Both components exist and hold a signed-in user
C10_Witness ==
    /\ storeExists
    /\ authExists
    /\ storeUser # NoUser
    /\ authUser # NoUser

\* An admin check on user u with flag isAdmin gave off o: it grants exactly
\* when a user is signed in and isAdmin is true, asks a signed-out caller to
\* log in, and refuses a signed-in non-admin without asking to log in
AdminCheckAsSpecified(u, isAdmin, o) ==
    /\ (Has(o, Ret("true")) \/ Has(o, UI("admin-section")))
         <=> (u # NoUser /\ isAdmin)
    /\ u = NoUser => (Has(o, Note("info", "login")) \/ Has(o, UI("overlay")))
    /\ (u # NoUser /\ ~isAdmin)
         => /\ Has(o, Note("error", "admin-required"))
            /\ ~Has(o, Note("info", "login"))
            /\ ~Has(o, UI("overlay"))

\* C11: the admin checks (AuthManager.requireAdminAccess, the store's check
\* on the admin link) grant exactly when a user is signed in and isAdmin is
\* true; with no user they refuse with a login prompt; a signed-in non-admin
\* they refuse with the admin-denied signal and without opening the login
\* overlay.
C11_AdminCheck ==
    [][ /\ RequireAdminAccess => AdminCheckAsSpecified(authUser, authIsAdmin, out')
        /\ AdminNavClick => AdminCheckAsSpecified(storeUser, storeIsAdmin, out') ]_vars

\* A requireAuthForAction on user u gave off o: "true" exactly when a user
\* is signed in, and with no user "false" and one login prompt
AuthCheckAsSpecified(u, o) ==
    /\ Has(o, Ret("true")) <=> u # NoUser
    /\ Has(o, Ret("false")) <=> u = NoUser
    /\ Count(o, Note("info", "login")) = IF u = NoUser THEN 1 ELSE 0

\* C12: requireAuthForAction, of the store and of AuthManager, returns true
\* exactly when a user is signed in and leaves session and cart as they are;
\* with no user every call returns false and gives off one login prompt,
\* whatever the calls before it gave off.
C12_RequireAuth ==
    [][ /\ StoreRequireAuthForAction
           => /\ AuthCheckAsSpecified(storeUser, out')
              /\ UNCHANGED << sessionVars, authVars, cart, persistVars >>
        /\ AuthRequireAuthForAction
           => /\ AuthCheckAsSpecified(authUser, out')
              /\ UNCHANGED << sessionVars, authVars, cart, persistVars >> ]_vars

\* A signed-out call of the store's requireAuthForAction has just returned
\* false with its prompt and the overlay
C12_Witness ==
    /\ storeExists
    /\ storeUser = NoUser
    /\ out = << Note("info", "login"), UI("overlay"), Ret("false") >>

\* The verification at the head of the payments is answered with verdict
VerifyAnswered(verdict) ==
    /\ payments # << >>
    /\ Head(payments).stage = "verifying"
    /\ VerifyResolves(verdict)

\* C13: the orders grow only in the step in which a verification is
\* answered with success; a verification answered with success false, or not
\* answered usably, records no order and leaves the in-memory cart, the
\* remote cart records and the requests to the remote store as they are.
C13_OrderOnlyAfterVerification ==
    [][ /\ orders' # orders => VerifyAnswered("success")
        /\ (VerifyAnswered("declined") \/ VerifyAnswered("error"))
           => /\ orders' = orders
              /\ cart' = cart
              /\ remote' = remote
              /\ inflight' = inflight ]_vars

\* A verification has just been answered with success false: the signed-in
\* user's cart still holds its lines and no order is recorded
C13_Witness ==
    /\ lastOp.op = "verify"
    /\ lastOp.res = "declined"
    /\ storeUser # NoUser
    /\ cart # << >>
    /\ orders = << >>

\* C14: SecureConfig.init ends, for every answer of the config request that
\* is a failure, with the fallback configuration as window.CONFIG, isLoaded
\* true and configReady dispatched; for no answer does it end without a
\* configuration published.
C14_ConfigFallback ==
    [][ \A answer \in Answers :
          ConfigPublished(answer)
          => /\ config' # "none"
             /\ isLoaded'
             /\ Has(out', Call("configReady"))
             /\ answer # "ok" => config' = "fallback" ]_vars

\* The config request was answered with a body that is not JSON after the
\* page had loaded: the fallback is published and configReady has created
\* the AuthManager that was waiting for it
C14_Witness ==
    /\ lastOp.op = "configReady"
    /\ lastOp.res = "malformed"
    /\ config = "fallback"
    /\ isLoaded
    /\ authExists
    /\ out = << Call("configReady") >>

\* The provider's next identity event is delivered to AuthManager
IdentityDelivered ==
    /\ feed # << >>
    /\ OnAuthStateChanged

\* C15: handleLogout leaves currentUser and isAdmin of both components and
\* the cart as they are, and currentUser of either component changes only in
\* a step that delivers an identity event of the provider; with no event
\* delivered the session stays absent.
C15_SessionChangesOnlyOnEvents ==
    [][ /\ HandleLogout => UNCHANGED << sessionVars, authUser, authIsAdmin, cart >>
        /\ (storeUser' # storeUser \/ authUser' # authUser) => IdentityDelivered ]_vars

\* handleLogout has run and its event is not delivered yet: the user is
\* still the session's user and the cart still holds its lines
C15_Witness ==
    /\ provUser = NoUser
    /\ feed = << NoUser >>
    /\ storeUser # NoUser
    /\ authUser = storeUser
    /\ cart # << >>

\* C16: in a step that delivers an identity event, every update of the page
\* comes after the call that notifies the store of the event.
C16_StoreBeforeUI ==
    [][ (storeExists /\ IdentityDelivered)
        => \A i \in DOMAIN out' :
             out'[i].t = "ui" => \E j \in 1..(i - 1) : out'[j].t = "call" ]_vars

\* The read at the head of the queue fails
LoadFailed ==
    /\ inflight # << >>
    /\ Head(inflight).kind = "read"
    /\ ReadResolves(FALSE)

\* Does o hold a notification of type warning or error?
Warns(o) == \E i \in DOMAIN o : o[i].t \in { "warning", "error" }

\* C19: when the remote read of a login's cart load fails, the in-memory
\* cart becomes empty and a warning is shown to the user.
C19_LoadFailureWarns ==
    [][ LoadFailed => (cart' = << >> /\ Warns(out')) ]_vars

\* C20: when the remote write of the save that addToCart started is
\* rejected, the code after addToCart's await shows a warning and not the
\* notification of success.
C20_SaveFailureObservable ==
    [][ (WriteRejected /\ Head(inflight).by = "addToCart")
        => (Warns(out') /\ ~Has(out', Note("success", "added"))) ]_vars

\* The store is notified of the login of user, by a delivered event
LoginNotified(user) ==
    /\ storeExists
    /\ feed # << >>
    /\ Head(feed) = user
    /\ OnAuthStateChanged

\* C17: a login notification for a user other than the current one empties
\* the in-memory cart in the same step, as a logout would.
C17_SwitchClearsCart ==
    [][ \A user \in accounts :
          (storeUser # NoUser /\ storeUser # user /\ LoginNotified(user))
          => cart' = << >> ]_vars

\* C18: a login notification for the user who is the store's current user
\* leaves the in-memory cart as it is and issues no cart load.
C18_SameUserLoginNoOp ==
    [][ \A user \in accounts :
          (storeUser = user /\ LoginNotified(user))
          => (cart' = cart /\ inflight' = inflight) ]_vars

\* Some cart mutator is called and goes as far as its saveCart
MutationStarted ==
    /\ MutatorCall
    /\ inflight' # inflight

\* Is the write of a saveCart among the requests q?
SavePending(q) == \E i \in DOMAIN q : q[i].kind = "write"

\* C21: a cart mutator that changes the cart and saves it starts only when
\* the write of no earlier saveCart is still pending.
C21_NoOverlappingMutations ==
    [][ MutationStarted => ~SavePending(inflight) ]_vars

\* Some form handler ends in its catch block for a rejection with code
FormErrorPath(code) ==
    \/ HandleLoginFails(code)
    \/ HandleSignupFails(code)
    \/ HandlePasswordResetFails(code)

\* The profile write at the head of the queue is rejected
ProfileWriteRejected ==
    /\ inflight # << >>
    /\ Head(inflight).kind = "profile"
    /\ ProfileWriteResolves(FALSE)

\* C22: a sign-in, sign-up or password reset that ends in its catch block
\* shows the message of the error's code (the generic one for a code that is
\* not in the table) and leaves currentUser, isAdmin and the cart as they
\* are; and the user the attempt was made for is not signed in.
C22_AuthErrorPaths ==
    [][ /\ \A code \in ErrorCodes :
             FormErrorPath(code)
             => /\ Has(out', Note("error", IF code \in MappedCodes
                                             THEN GetAuthErrorMessage(code)
                                             ELSE GenericMessage))
                /\ UNCHANGED << provVars, authVars, sessionVars, cart >>
        /\ ProfileWriteRejected
           => /\ Has(out', Note("error", GenericMessage))
              /\ UNCHANGED << provVars, authVars, sessionVars, cart >>
              /\ provUser'.uid # Head(inflight).uid
              /\ authUser'.uid # Head(inflight).uid
              /\ storeUser'.uid # Head(inflight).uid ]_vars

\* The write of the save that clearCart started is applied
ClearCartSaved ==
    /\ inflight # << >>
    /\ Head(inflight).kind = "write"
    /\ Head(inflight).by = "clearCart"
    /\ WriteResolves(TRUE)

\* C23: signed in, clearCart on an empty cart leaves the cart, the requests
\* to the remote store and both stores as they are and shows an
\* informational notification; on a cart with lines, once confirmed, it
\* empties the cart and starts the save of the empty cart under the current
\* user's key, after which that user's remote record holds no line.
C23_ClearCart ==
    [][ /\ \A confirmed \in BOOLEAN :
             (storeUser # NoUser /\ ClearCart(confirmed))
             => IF cart = << >>
                THEN /\ UNCHANGED << cart, inflight, remote, localStore >>
                     /\ \E i \in DOMAIN out' : out'[i].t = "info"
                ELSE IF confirmed
                THEN /\ cart' = << >>
                     /\ inflight' = Append(inflight,
                           WriteReq(storeUser.uid, << >>, By("clearCart")))
                ELSE UNCHANGED << cart, inflight, remote, localStore >>
        /\ ClearCartSaved => LoadedCart(remote'[Head(inflight).uid]) = << >> ]_vars

\* clearCart has just emptied a cart whose lines are in the user's remote
\* record; the save of the empty cart is on its way
C23_Witness ==
    /\ storeUser # NoUser
    /\ cart = << >>
    /\ remote[storeUser.uid].exists
    /\ inflight # << >>
    /\ inflight[Len(inflight)] = WriteReq(storeUser.uid, << >>, "clearCart")

\* The read at the head of the queue, started for a user who is not the
\* current one any more, is answered while another user is current
StaleLoadAnswered ==
    /\ inflight # << >>
    /\ Head(inflight).kind = "read"
    /\ storeUser # NoUser
    /\ Head(inflight).uid # storeUser.uid
    /\ ReadResolves(TRUE)

\* C24: the answer to a cart load that was started for another user than the
\* current one is not applied: the in-memory cart stays as it is.
C24_StaleLoadNotApplied ==
    [][ StaleLoadAnswered => cart' = cart ]_vars

\* C25: with a user signed in, no request to the remote store pending and
\* none failed, the in-memory cart equals that user's remote record, also
\* when a mutator changed the cart while the login's load was pending.
C25_MutationDuringLoadKept ==
    (storeUser # NoUser /\ inflight = << >> /\ failures = 0)
    => cart = LoadedCart(remote[storeUser.uid])

\* C26: once the page has loaded and the configuration is published, in
\* whichever order, the store exists.
C26_StoreConstructedAfterConfig ==
    (domLoaded /\ config # "none") => storeExists

\* C27: the admin section is the current section only while isAdmin is
\* true, also after the delayed showSection('admin') of an admin's login
\* fires.
C27_AdminSectionOnlyForAdmin ==
    (storeExists /\ currentSection = "admin") => storeIsAdmin

\* C28: the total of every recorded order is the sum of price times
\* quantity over the order's own items.
C28_OrderTotalMatchesItems ==
    \A i \in DOMAIN orders : orders[i].total = Total(orders[i].items)

\* C29: the step that records the order of a verified payment starts the
\* save of the empty cart under the paying user's key.
C29_PaidCartClearedRemotely ==
    [][ VerifyAnswered("success")
        => inflight' = Append(inflight,
              WriteReq(Head(payments).uid, << >>, By("payment"))) ]_vars

=============================================================================
